---- MODULE Spec2Model ----
(***************************************************************************)
(* Model of the deterministic single-tape Turing machine simulator of      *)
(* src/main.py: class TuringMachine (constructor, input_tape, go_right,    *)
(* go_left, read, write, next) and the driver loop of main().              *)
(*                                                                         *)
(* Python lists are 0-indexed, TLA+ sequences 1-indexed: the cell at list  *)
(* index i is tape[i + 1].  index and tape_length keep the code's values.  *)
(***************************************************************************)
EXTENDS Integers, Sequences, FiniteSets, TLC

\* ---------------------------------------------------------------- constants
\* src/main.py:18-22.  A Python bool is modelled by a TLA+ boolean; the value
\* returned by next() is True, False or None and is modelled by its repr.
RIGHT == FALSE
LEFT == TRUE
BLANK == ""
ACCEPT == "True"
REJECT == "False"
None == "None"

\* src/main.py:146, the floor of the driver's step ceiling.
MinSteps == 10000

\* ------------------------------------------------------------------- bounds
\* Head moves of one run followed on the unbounded tape.
MaxMoves == 3
\* Longest input sequence handed to input_tape.
MaxLen == 2
\* Longest tape explored: a call that would grow the tape past it is not taken.
MaxTape == 4
\* Number of next() calls of a run that are compared with a fresh machine.
MaxRun == 3

\* Symbols written on tapes and by write().
Symbols == {"0", "1", BLANK}
\* Characters a user can type at the input() prompt of main().
Chars == {"0", "1"}

\* All sequences over S of length at most n.
SeqUpTo(S, n) == UNION {[1..k -> S] : k \in 0..n}

\* The empty dict {}.
EmptyDict == [k \in {} |-> k]

\* ------------------------------------------------------ machine descriptions
\* Contents of turing_machine.json as json.load returns them (src/main.py:
\* 121-122): directions are the strings 'L' / 'R'.
EveryCell(ns, d) == [c \in Symbols |-> <<c, ns, d>>]

SpecFiles == <<
    \* 1: spec.md scenario A - accepting initial state, no transitions
    [states |-> {"q0"}, initial_state |-> "q0", accepting_states |-> {"q0"},
     delta |-> EmptyDict],
    \* 2: spec.md scenario B
    [states |-> {"q0", "q1"}, initial_state |-> "q0", accepting_states |-> {"q1"},
     delta |-> ("q0" :> ("1" :> <<"1", "q1", "R">>))],
    \* 3: spec.md scenario C - flip every '0' to '1', accept on BLANK
    [states |-> {"q0", "qa"}, initial_state |-> "q0", accepting_states |-> {"qa"},
     delta |-> ("q0" :> (("0" :> <<"1", "q0", "R">>) @@ (BLANK :> <<BLANK, "qa", "R">>)))],
    \* 4: transitions leave the accepting state q1
    [states |-> {"q0", "q1"}, initial_state |-> "q0", accepting_states |-> {"q1"},
     delta |-> (("q0" :> (("1" :> <<"0", "q1", "R">>) @@ ("0" :> <<"0", "q0", "L">>)))
                @@ ("q1" :> ((BLANK :> <<"1", "q0", "L">>) @@ ("0" :> <<"1", "q1", "R">>))))],
    \* 5: walks left for ever, writing '1'
    [states |-> {"q0"}, initial_state |-> "q0", accepting_states |-> {},
     delta |-> ("q0" :> EveryCell("q0", "L"))],
    \* 6: bounces right and left for ever without changing the tape
    [states |-> {"q0", "q1"}, initial_state |-> "q0", accepting_states |-> {},
     delta |-> (("q0" :> EveryCell("q1", "R")) @@ ("q1" :> EveryCell("q0", "L")))],
    \* 7: initial state outside the state universe
    [states |-> {"q0", "q1"}, initial_state |-> "q9", accepting_states |-> {"q1"},
     delta |-> ("q0" :> ("1" :> <<"1", "q1", "R">>))],
    \* 8: accepting states outside the state universe
    [states |-> {"q0", "q1"}, initial_state |-> "q0", accepting_states |-> {"q1", "q7", "q8"},
     delta |-> ("q0" :> ("1" :> <<"1", "q1", "R">>))],
    \* 9: both invalid
    [states |-> {"q0"}, initial_state |-> "q9", accepting_states |-> {"q7"},
     delta |-> EmptyDict],
    \* 10: a destination state and a source key outside the state universe
    [states |-> {"q0"}, initial_state |-> "q0", accepting_states |-> {"q0"},
     delta |-> (("q0" :> ("1" :> <<"0", "qx", "R">>))
                @@ ("qx" :> (BLANK :> <<"1", "q0", "L">>)))]
  >>

\* src/main.py:128-136: the constructor arguments main() builds from the file.
parse(spec) ==
    [states |-> spec.states,
     initial_state |-> spec.initial_state,
     accepting_states |-> spec.accepting_states,
     delta |-> [state \in DOMAIN spec.delta |->
                  [symbol \in DOMAIN spec.delta[state] |->
                     LET t == spec.delta[state][symbol]
                     IN <<t[1], t[2], t[3] = "L">>]]]

\* -------------------------------------------------------------------- state
VARIABLES
    tm,             \* "unbound" | "object" | "ValueError": outcome of TuringMachine(...)
    error,          \* what the ValueError names (<<>> when none was raised)
    states,         \* _states
    accepting,      \* _accepting
    current_state,  \* _current_state
    delta,          \* _delta
    loaded,         \* whether input_tape has set _tape, _tape_length and _index
    tape,           \* _tape
    tape_length,    \* _tape_length
    index,          \* _index
    result,         \* value returned by the last next() call
    pc,             \* position of main(): "api" when the class is used directly
    steps,          \* main's steps
    max_steps,      \* main's max_steps
    report,         \* what main printed at the end of the loop
    last_op,        \* history: the last method called
    spec_id,        \* history: which machine description was constructed
    input,          \* history: argument of the last input_tape call
    tracked,        \* history: only next() was called since the last input_tape
    run_len,        \* history: number of those next() calls
    pre_length,     \* history: _tape_length when the last method was called
    offset,         \* history: number of growths to the left since input_tape
    init_len,       \* history: _tape_length right after input_tape
    moves,          \* history: go_left/go_right/next calls since input_tape
    pos,            \* unbounded tape: position of the head (0 = first input cell)
    visited,        \* unbounded tape: positions the head has been on
    acells,         \* unbounded tape: the non-BLANK cells, as <<position, symbol>>
    rejected        \* history: next() returned Reject, no input_tape or write since

machine == <<states, accepting, current_state, delta>>
tapevars == <<loaded, tape, tape_length, index>>
mainvars == <<pc, steps, max_steps, report>>
history == <<last_op, spec_id, input, tracked, run_len, pre_length>>
tapehist == <<offset, init_len, moves, pos, visited, acells, rejected>>
vars == <<tm, error, machine, tapevars, result, mainvars, history, tapehist>>

\* The object's attributes as one value.
Self ==
    [states |-> states, accepting |-> accepting, current_state |-> current_state,
     delta |-> delta, tape |-> tape, tape_length |-> tape_length, index |-> index]

\* ------------------------------------------------------- class TuringMachine
\* __init__ without the check of the accepting states.
__init__noSubsetCheck(a) ==
    IF a.initial_state \notin a.states
    THEN [raised |-> TRUE, error |-> <<"initial", {a.initial_state}>>]
    ELSE [raised |-> FALSE,
          states |-> a.states,
          current_state |-> a.initial_state,
          delta |-> a.delta,
          accepting |-> a.accepting_states]

\* src/main.py:39-57.  Either the ValueError raised or the attributes set.
__init__(a) ==
    IF a.initial_state \notin a.states
    THEN [raised |-> TRUE, error |-> <<"initial", {a.initial_state}>>]
    ELSE IF ~(a.accepting_states \subseteq a.states)
    THEN [raised |-> TRUE, error |-> <<"accepting", a.accepting_states \ a.states>>]
    ELSE [raised |-> FALSE,
          states |-> a.states,
          current_state |-> a.initial_state,
          delta |-> a.delta,
          accepting |-> a.accepting_states]

\* input_tape without the replacement of an empty input by [BLANK].
input_tape_keepEmpty(self, w) ==
    [self EXCEPT !.tape = w, !.tape_length = Len(w), !.index = 0]

\* src/main.py:59-64
input_tape(self, w) ==
    LET t == IF w # <<>> THEN w ELSE <<BLANK>>
    IN [self EXCEPT !.tape = t, !.tape_length = Len(t), !.index = 0]

\* go_right that grows the tape one cell early, when the head is on the cell
\* before the last one.
go_right_growsAhead(self) ==
    LET grown == IF self.index >= self.tape_length - 2
                 THEN [self EXCEPT !.tape = self.tape \o <<BLANK>>,
                                   !.tape_length = self.tape_length + 1]
                 ELSE self
    IN [grown EXCEPT !.index = self.index + 1]

\* go_right whose edge test is off by one: it grows the tape only when the
\* head is already past the last cell.
go_right_lateGrowth(self) ==
    LET grown == IF self.index = self.tape_length
                 THEN [self EXCEPT !.tape = self.tape \o <<BLANK>>,
                                   !.tape_length = self.tape_length + 1]
                 ELSE self
    IN [grown EXCEPT !.index = self.index + 1]

\* src/main.py:66-74
go_right(self) ==
    LET grown == IF self.index = self.tape_length - 1
                 THEN [self EXCEPT !.tape = self.tape \o <<BLANK>>,
                                   !.tape_length = self.tape_length + 1]
                 ELSE self
    IN [grown EXCEPT !.index = self.index + 1]

\* go_left that grows the tape at the wrong end.
go_left_appends(self) ==
    IF self.index = 0
    THEN [self EXCEPT !.tape = self.tape \o <<BLANK>>,
                      !.tape_length = self.tape_length + 1]
    ELSE [self EXCEPT !.index = self.index - 1]

\* go_left that follows the shifted cells after prepending: the head stays on
\* the cell it was on.
go_left_staysOnCell(self) ==
    IF self.index = 0
    THEN [self EXCEPT !.tape = <<BLANK>> \o self.tape,
                      !.tape_length = self.tape_length + 1,
                      !.index = 1]
    ELSE [self EXCEPT !.index = self.index - 1]

\* go_left that prepends the cell without counting it.
go_left_staleLength(self) ==
    IF self.index = 0
    THEN [self EXCEPT !.tape = <<BLANK>> \o self.tape]
    ELSE [self EXCEPT !.index = self.index - 1]

\* go_left without the edge case: the head always steps back.
go_left_noEdge(self) == [self EXCEPT !.index = self.index - 1]

\* src/main.py:76-85
go_left(self) ==
    IF self.index = 0
    THEN [self EXCEPT !.tape = <<BLANK>> \o self.tape,
                      !.tape_length = self.tape_length + 1]
    ELSE [self EXCEPT !.index = self.index - 1]

\* src/main.py:87-88
read(self) == self.tape[self.index + 1]

\* write whose assignment is lost: the tape keeps the old symbol.
write_dropped(self, symbol) == self

\* write that inserts the symbol before the cell under the head (list.insert)
\* instead of overwriting the cell.
write_inserts(self, symbol) ==
    [self EXCEPT !.tape = SubSeq(self.tape, 1, self.index) \o <<symbol>>
                          \o SubSeq(self.tape, self.index + 1, Len(self.tape))]

\* src/main.py:90-91
write(self, symbol) == [self EXCEPT !.tape[self.index + 1] = symbol]

\* next that returns ACCEPT as soon as the new state is known, before the move.
next_acceptBeforeMove(self) ==
    LET symbol == read(self)
        state == self.current_state
    IN IF state \in DOMAIN self.delta /\ symbol \in DOMAIN self.delta[state]
       THEN LET new_symbol == self.delta[state][symbol][1]
                new_state == self.delta[state][symbol][2]
                direction == self.delta[state][symbol][3]
                written == write(self, new_symbol)
                entered == [written EXCEPT !.current_state = new_state]
                moved == IF direction = RIGHT THEN go_right(entered) ELSE go_left(entered)
            IN IF new_state \in self.accepting
               THEN [self |-> entered, result |-> ACCEPT]
               ELSE [self |-> moved, result |-> None]
       ELSE [self |-> self, result |-> REJECT]

\* next that accepts whenever the machine already is in an accepting state.
next_acceptingFirst(self) ==
    LET symbol == read(self)
        state == self.current_state
    IN IF state \in self.accepting
       THEN [self |-> self, result |-> ACCEPT]
       ELSE IF state \in DOMAIN self.delta /\ symbol \in DOMAIN self.delta[state]
       THEN LET new_symbol == self.delta[state][symbol][1]
                new_state == self.delta[state][symbol][2]
                direction == self.delta[state][symbol][3]
                written == write(self, new_symbol)
                entered == [written EXCEPT !.current_state = new_state]
                moved == IF direction = RIGHT THEN go_right(entered) ELSE go_left(entered)
            IN [self |-> moved,
                result |-> IF new_state \in self.accepting THEN ACCEPT ELSE None]
       ELSE [self |-> self, result |-> REJECT]

\* src/main.py:93-110.  The attributes after the call and the value returned.
next(self) ==
    LET symbol == read(self)
        state == self.current_state
    IN IF state \in DOMAIN self.delta /\ symbol \in DOMAIN self.delta[state]
       THEN LET new_symbol == self.delta[state][symbol][1]
                new_state == self.delta[state][symbol][2]
                direction == self.delta[state][symbol][3]
                written == write(self, new_symbol)
                entered == [written EXCEPT !.current_state = new_state]
                moved == IF direction = RIGHT THEN go_right(entered) ELSE go_left(entered)
            IN [self |-> moved,
                result |-> IF new_state \in self.accepting THEN ACCEPT ELSE None]
       ELSE [self |-> self, result |-> REJECT]

\* ------------------------------------------------------------------ actions
\* The machines a caller constructs: the constructor arguments of each description.
Machines == [i \in DOMAIN SpecFiles |-> parse(SpecFiles[i])]

\* Sequences a caller hands to input_tape (a list may hold BLANK itself).
Inputs == SeqUpTo(Symbols, MaxLen)
\* Strings typed at the prompt of main().
Typed == SeqUpTo(Chars, MaxLen)

\* The object's mutable attributes take the values of s.
Store(s) ==
    /\ current_state' = s.current_state
    /\ tape' = s.tape
    /\ tape_length' = s.tape_length
    /\ index' = s.index
    /\ pre_length' = tape_length
    /\ states' = s.states
    /\ accepting' = s.accepting
    /\ delta' = s.delta

\* tm = TuringMachine(...) with the arguments a.
Bind(a) ==
    LET r == __init__(a)
    IN IF r.raised
       THEN /\ tm' = "ValueError"
            /\ error' = r.error
            /\ UNCHANGED machine
       ELSE /\ tm' = "object"
            /\ error' = <<>>
            /\ states' = r.states
            /\ current_state' = r.current_state
            /\ delta' = r.delta
            /\ accepting' = r.accepting

\* History of the run in progress.
Untrack == input' = <<>> /\ tracked' = FALSE /\ run_len' = 0
TrackNext ==
    IF tracked /\ run_len < MaxRun
    THEN run_len' = run_len + 1 /\ UNCHANGED <<input, tracked>>
    ELSE Untrack

Init ==
    /\ tm = "unbound" /\ error = <<>>
    /\ states = {} /\ accepting = {} /\ current_state = "" /\ delta = EmptyDict
    /\ loaded = FALSE /\ tape = <<>> /\ tape_length = 0 /\ index = 0
    /\ result = ""
    /\ pc = "api" /\ steps = 0 /\ max_steps = 0 /\ report = ""
    /\ last_op = "" /\ spec_id = 0 /\ input = <<>> /\ tracked = FALSE /\ run_len = 0
    /\ pre_length = 0
    /\ offset = 0 /\ init_len = 0 /\ moves = 0 /\ pos = 0
    /\ visited = {} /\ acells = {} /\ rejected = FALSE

\* TuringMachine(states, initial_state, delta, accepting_states)
Construct ==
    /\ UNCHANGED tapehist
    /\ pc = "api" /\ tm = "unbound"
    /\ \E i \in DOMAIN Machines :
         /\ Bind(Machines[i])
         /\ spec_id' = i
    /\ last_op' = "__init__"
    /\ UNCHANGED <<tapevars, result, mainvars, input, tracked, run_len, pre_length>>

\* tm.input_tape(w)
InputTapeOp(w) ==
    /\ pc = "api" /\ tm = "object"
    /\ Store(input_tape(Self, w))
    /\ input' = w
    /\ loaded' = TRUE
    /\ tracked' = TRUE /\ run_len' = 0
    /\ last_op' = "input_tape"
    /\ UNCHANGED <<tm, error, result, mainvars, spec_id>>

InputTape == (\E w \in Inputs : InputTapeOp(w)) /\ UNCHANGED tapehist

\* tm.go_right()
GoRightOp ==
    /\ pc = "api" /\ tm = "object" /\ loaded
    /\ go_right(Self).tape_length <= MaxTape
    /\ Store(go_right(Self))
    /\ last_op' = "go_right" /\ Untrack
    /\ UNCHANGED <<tm, error, loaded, result, mainvars, spec_id>>

GoRight == GoRightOp /\ UNCHANGED tapehist

\* tm.go_left()
GoLeftOp ==
    /\ pc = "api" /\ tm = "object" /\ loaded
    /\ go_left(Self).tape_length <= MaxTape
    /\ Store(go_left(Self))
    /\ last_op' = "go_left" /\ Untrack
    /\ UNCHANGED <<tm, error, loaded, result, mainvars, spec_id>>

GoLeft == GoLeftOp /\ UNCHANGED tapehist

\* tm.write(c)
WriteOp(c) ==
    /\ pc = "api" /\ tm = "object" /\ loaded
    /\ Store(write(Self, c))
    /\ last_op' = "write" /\ Untrack
    /\ UNCHANGED <<tm, error, loaded, result, mainvars, spec_id>>

Write == (\E c \in Symbols : WriteOp(c)) /\ UNCHANGED tapehist

\* tm.next()
NextOp ==
    /\ pc = "api" /\ tm = "object" /\ loaded
    /\ next(Self).self.tape_length <= MaxTape
    /\ Store(next(Self).self)
    /\ result' = next(Self).result
    /\ last_op' = "next" /\ TrackNext
    /\ UNCHANGED <<tm, error, loaded, mainvars, spec_id>>

NextCall == NextOp /\ UNCHANGED tapehist

Next == Construct \/ InputTape \/ GoRight \/ GoLeft \/ Write \/ NextCall

Spec == Init /\ [][Next]_vars

\* ------------------------------------------- the class beside an unbounded tape
\* The unbounded tape of spec.md 4.1: cells indexed by the integers, BLANK
\* unless written.  Position 0 is the first cell of the input.
ARead(cells, p) ==
    IF \E c \in cells : c[1] = p
    THEN (CHOOSE c \in cells : c[1] = p)[2]
    ELSE BLANK

AWrite(cells, p, symbol) ==
    {c \in cells : c[1] # p} \cup (IF symbol = BLANK THEN {} ELSE {<<p, symbol>>})

ACells(w) == {<<i - 1, w[i]>> : i \in {j \in 1..Len(w) : w[j] # BLANK}}

\* The call in progress has grown the list to the left.
LeftGrowth == tape_length' = tape_length + 1 /\ index' = 0

\* The head of the unbounded tape moves by d (1 or -1).
AMove(d) ==
    /\ pos' = pos + d
    /\ visited' = visited \cup {pos + d}
    /\ moves' = moves + 1
    /\ offset' = offset + (IF LeftGrowth THEN 1 ELSE 0)

\* A caller starts a run on a new object, or when the run before has stopped:
\* next() has just returned Accept or Reject.
RunStopped ==
    \/ ~loaded
    \/ (last_op = "next" /\ result \in {ACCEPT, REJECT})

TapeInput ==
    /\ RunStopped
    /\ \E w \in Inputs :
         /\ InputTapeOp(w)
         /\ acells' = ACells(w)
    /\ init_len' = tape_length'
    /\ offset' = 0 /\ moves' = 0 /\ pos' = 0 /\ visited' = {0}
    /\ rejected' = FALSE

TapeGoRight ==
    /\ moves < MaxMoves
    /\ GoRightOp
    /\ AMove(1)
    /\ UNCHANGED <<init_len, acells, rejected>>

TapeGoLeft ==
    /\ moves < MaxMoves
    /\ GoLeftOp
    /\ AMove(-1)
    /\ UNCHANGED <<init_len, acells, rejected>>

TapeWrite ==
    /\ \E c \in Symbols :
         /\ WriteOp(c)
         /\ acells' = AWrite(acells, pos, c)
    /\ rejected' = FALSE
    /\ UNCHANGED <<offset, init_len, moves, pos, visited>>

\* next() beside a step of the machine on the unbounded tape (spec.md 4.3).
TapeNext ==
    /\ moves < MaxMoves
    /\ NextOp
    /\ LET symbol == ARead(acells, pos)
       IN IF current_state \in DOMAIN delta /\ symbol \in DOMAIN delta[current_state]
          THEN /\ acells' = AWrite(acells, pos, delta[current_state][symbol][1])
               /\ AMove(IF delta[current_state][symbol][3] = RIGHT THEN 1 ELSE -1)
          ELSE UNCHANGED <<acells, pos, visited, moves, offset>>
    /\ rejected' = (rejected \/ result' = REJECT)
    /\ UNCHANGED init_len

TapeStep == Construct \/ TapeInput \/ TapeGoRight \/ TapeGoLeft \/ TapeWrite \/ TapeNext

SpecTape == Init /\ [][TapeStep]_vars

\* --------------------------------------------------------------------- main
Max(a, b) == IF a > b THEN a ELSE b

MainInit ==
    /\ tm = "unbound" /\ error = <<>>
    /\ states = {} /\ accepting = {} /\ current_state = "" /\ delta = EmptyDict
    /\ loaded = FALSE /\ tape = <<>> /\ tape_length = 0 /\ index = 0
    /\ result = ""
    /\ pc = "start" /\ steps = 0 /\ max_steps = 0 /\ report = ""
    /\ last_op = "" /\ spec_id = 0 /\ input = <<>> /\ tracked = FALSE /\ run_len = 0
    /\ pre_length = 0
    /\ offset = 0 /\ init_len = 0 /\ moves = 0 /\ pos = 0
    /\ visited = {} /\ acells = {} /\ rejected = FALSE

\* src/main.py:119-141.  File 0 cannot be read or parsed: sys.exit(1).  A
\* ValueError of the constructor is not caught and ends main().
MainLoad ==
    /\ UNCHANGED tapehist
    /\ pc = "start"
    /\ \E f \in 0..Len(SpecFiles) :
         /\ spec_id' = f
         /\ IF f = 0
            THEN /\ pc' = "exit"
                 /\ UNCHANGED <<tm, error, machine, last_op>>
            ELSE /\ Bind(parse(SpecFiles[f]))
                 /\ last_op' = "__init__"
                 /\ pc' = IF __init__(parse(SpecFiles[f])).raised THEN "raised" ELSE "input"
    /\ UNCHANGED <<tapevars, result, steps, max_steps, report, input, tracked, run_len, pre_length>>

\* src/main.py:143-147
MainInput ==
    /\ UNCHANGED tapehist
    /\ pc = "input"
    /\ \E tape_input \in Typed :
         /\ Store(input_tape(Self, tape_input))
         /\ input' = tape_input
         /\ max_steps' = Max(MinSteps, Len(tape_input) * Len(tape_input) * Len(tape_input))
    /\ loaded' = TRUE
    /\ steps' = 0
    /\ tracked' = TRUE /\ run_len' = 0
    /\ last_op' = "input_tape"
    /\ pc' = "loop"
    /\ UNCHANGED <<tm, error, result, report, spec_id>>

\* The loop body with the outcome tested by truth value (`if result:` /
\* `elif not result:`) instead of by comparison with ACCEPT and REJECT.
MainLoop_truthValue ==
    /\ UNCHANGED tapehist
    /\ pc = "loop"
    /\ next(Self).self.tape_length <= MaxTape
    /\ Store(next(Self).self)
    /\ result' = next(Self).result
    /\ steps' = steps + 1
    /\ IF result' = ACCEPT
       THEN report' = "accepted" /\ pc' = "done"
       ELSE report' = "rejected" /\ pc' = "done"
    /\ last_op' = "next" /\ TrackNext
    /\ UNCHANGED <<tm, error, loaded, max_steps, spec_id>>

\* src/main.py:149-169, one iteration of the loop.
MainLoop ==
    /\ UNCHANGED tapehist
    /\ pc = "loop"
    /\ next(Self).self.tape_length <= MaxTape
    /\ Store(next(Self).self)
    /\ result' = next(Self).result
    /\ steps' = steps + 1
    /\ IF result' = ACCEPT
       THEN report' = "accepted" /\ pc' = "done"
       ELSE IF result' = REJECT
       THEN report' = "rejected" /\ pc' = "done"
       ELSE IF steps' > max_steps
       THEN report' = "exceeded" /\ pc' = "done"
       ELSE UNCHANGED <<report, pc>>
    /\ last_op' = "next" /\ TrackNext
    /\ UNCHANGED <<tm, error, loaded, max_steps, spec_id>>

MainNext == MainLoad \/ MainInput \/ MainLoop

SpecMain == MainInit /\ [][MainNext]_vars

\* ------------------------------------------------------------------- claims
\* The object is usable: constructed, and input_tape has been called.
Ready == tm = "object" /\ loaded

\* The transition table has an action for the configuration under the head.
Defined ==
    /\ current_state \in DOMAIN delta
    /\ tape[index + 1] \in DOMAIN delta[current_state]

\* C1: after next() has returned Accept the controller is terminal: a further
\* next() call leaves the current state, the tape contents, the tape length
\* and the head position unchanged.
C1_TerminalAfterAccept ==
    [][(last_op = "next" /\ result = ACCEPT /\ last_op' = "next")
         => UNCHANGED <<current_state, tape, tape_length, index>>]_vars

\* k calls of next() from the attributes self: the attributes reached and the
\* value the last call returned ("" when k = 0).
RECURSIVE Run(_, _)
Run(self, k) ==
    IF k = 0
    THEN [self |-> self, result |-> ""]
    ELSE next(Run(self, k - 1).self)

\* The run of k steps on input w by a freshly constructed machine with the
\* constructor arguments a (valid ones).
FreshRun(a, w, k) ==
    LET o == __init__(a)
        fresh == [states |-> o.states, accepting |-> o.accepting,
                  current_state |-> o.current_state, delta |-> o.delta,
                  tape |-> <<>>, tape_length |-> 0, index |-> 0]
    IN Run(input_tape(fresh, w), k)

\* C2: runs are independent: after input_tape(w) and k calls of next() on a
\* machine that has executed any earlier runs, the current state, tape,
\* tape length, head index and the last outcome equal those of the same k
\* steps on a freshly constructed machine.
C2_IndependentRuns ==
    (Ready /\ tracked) =>
        LET f == FreshRun(Machines[spec_id], input, run_len)
        IN /\ current_state = f.self.current_state
           /\ tape = f.self.tape
           /\ tape_length = f.self.tape_length
           /\ index = f.self.index
           /\ (run_len > 0 => result = f.result)

\* C3: head-position invariant: 0 <= head index < tape length in every state
\* reached after input_tape by go_left, go_right, write and next calls.
C3_HeadInRange == Ready => (0 <= index /\ index < tape_length)

\* The head stands on the leftmost cell after go_left has grown the tape.
C3_Witness ==
    /\ Ready /\ last_op = "go_left"
    /\ index = 0 /\ tape_length = pre_length + 1

\* C4: a next() call in a configuration with a defined action (new_symbol,
\* new_state, direction) writes new_symbol into exactly the cell that was
\* under the head (every other old cell keeps its symbol; after a growth to
\* the left the old cells sit one index higher), enters new_state, moves the
\* head one cell in the direction, growing the tape by one BLANK cell at an
\* edge, and returns Accept iff new_state is accepting, otherwise Continue;
\* the write and the move are applied also when it returns Accept.
C4_DefinedStep ==
    [][(Ready /\ last_op' = "next" /\ Defined) =>
         LET a == delta[current_state][tape[index + 1]]
             n == Len(tape)
             atLeft == a[3] # RIGHT /\ index = 0
             atRight == a[3] = RIGHT /\ index = n - 1
             shift == IF atLeft THEN 1 ELSE 0
         IN /\ current_state' = a[2]
            /\ result' = (IF a[2] \in accepting THEN ACCEPT ELSE None)
            /\ Len(tape') = (IF atLeft \/ atRight THEN n + 1 ELSE n)
            /\ tape_length' = Len(tape')
            /\ \A j \in 0..(n - 1) :
                 tape'[j + shift + 1] = (IF j = index THEN a[1] ELSE tape[j + 1])
            /\ atLeft => tape'[1] = BLANK
            /\ atRight => tape'[n + 1] = BLANK
            /\ index' = (IF a[3] = RIGHT THEN index + 1
                         ELSE IF index = 0 THEN 0 ELSE index - 1)
       ]_vars

\* Scenario B: the first step on "1" returned Accept with the tape grown to
\* length 2 and the head at index 1.
C4_Witness ==
    /\ Ready /\ last_op = "next" /\ result = ACCEPT
    /\ tracked /\ run_len = 1 /\ input = <<"1">> /\ spec_id = 2
    /\ current_state = "q1" /\ tape = <<"1", BLANK>> /\ tape_length = 2 /\ index = 1

\* C5: next() returns Reject iff no action is defined for (current_state,
\* symbol under the head), also when current_state is accepting, and a
\* rejecting call leaves tape, tape length, head index and current_state
\* unchanged.
C5_RejectFrame ==
    [][(Ready /\ last_op' = "next") =>
         /\ (result' = REJECT) <=> ~Defined
         /\ (result' = REJECT) => UNCHANGED <<tape, tape_length, index, current_state>>
       ]_vars

\* Scenario A: the accepting initial state has no transition and the first
\* step rejected.
C5_Witness ==
    /\ Ready /\ last_op = "next" /\ result = REJECT
    /\ tracked /\ run_len = 1 /\ input = <<"1">> /\ spec_id = 1
    /\ current_state \in accepting /\ tape = <<"1">> /\ index = 0

\* C6: construction succeeds iff initial_state is in states and
\* accepting_states is a subset of states; otherwise it raises an error
\* naming the initial state, or accepting_states minus states, no machine
\* exists and no step is executed; after a successful construction
\* current_state is initial_state and accepting is a subset of states.
C6_Construction ==
    (tm # "unbound") =>
        LET a == Machines[spec_id]
            okInitial == a.initial_state \in a.states
            okAccepting == a.accepting_states \subseteq a.states
        IN /\ (tm = "object") <=> (okInitial /\ okAccepting)
           /\ (tm = "ValueError") =>
                /\ error = (IF ~okInitial THEN <<"initial", {a.initial_state}>>
                            ELSE <<"accepting", a.accepting_states \ a.states>>)
                /\ machine = <<{}, {}, "", EmptyDict>>
                /\ ~loaded /\ last_op = "__init__" /\ result = "" /\ steps = 0
                /\ pc \notin {"input", "loop", "done"}
           /\ (tm = "object" /\ last_op = "__init__") => current_state = a.initial_state
           /\ (tm = "object") => accepting \subseteq states

\* The constructor refused accepting states outside the state universe.
C6_Witness ==
    /\ tm = "ValueError" /\ spec_id = 8
    /\ error = <<"accepting", {"q7", "q8"}>>

\* C7: with the step ceiling max_steps and a run that never accepts or
\* rejects, the driver reports "exceeded" after exactly max_steps calls of
\* next().
C7_ExceededAfterCeiling == (report = "exceeded") => (steps = max_steps)

\* C8: input_tape(w) yields a tape equal to w, of length |w|, with the head at
\* index 0 when w is non-empty, and a one-cell tape holding BLANK with the
\* head at index 0 when w is empty.
C8_InputTape ==
    (tm = "object" /\ last_op = "input_tape") =>
        /\ index = 0
        /\ Len(tape) = tape_length
        /\ (input # <<>>) => (tape = input /\ tape_length = Len(input))
        /\ (input = <<>>) => (tape = <<BLANK>> /\ tape_length = 1)

\* An empty input was loaded over the longer tape of an earlier run.
C8_Witness ==
    /\ Ready /\ last_op = "input_tape" /\ input = <<>>
    /\ tape = <<BLANK>> /\ pre_length > 1

C11_FlipRun ==
    (Ready /\ spec_id = 3 /\ tracked /\ (\A i \in 1..Len(input) : input[i] = "0")) =>
        LET n == Len(input)
            k == run_len
        IN /\ k <= n + 1
           /\ (0 < k /\ k <= n) => result = None
           /\ (k <= n) =>
                /\ index = k
                /\ \A j \in 0..(k - 1) : tape[j + 1] = "1"
                /\ \A j \in k..(n - 1) : tape[j + 1] = "0"
           /\ (k = n + 1) => result = ACCEPT

\* The flip machine accepted "00" with its third step.
C11_Witness ==
    /\ Ready /\ spec_id = 3 /\ tracked /\ input = <<"0", "0">>
    /\ run_len = 3 /\ result = ACCEPT /\ report = "accepted"

\* C13: every source-state key of the transition table of a constructed
\* machine is a member of the declared state universe.
C13_SourceKeysDeclared == (tm = "object") => (DOMAIN delta \subseteq states)

\* C14: current_state is a member of states after construction and after any
\* sequence of next() calls.
C14_CurrentStateDeclared == (tm = "object") => (current_state \in states)

\* C15: no operation after construction changes the transition table, the
\* state universe or the accepting set; write changes only the cell under the
\* head and leaves tape length and head index unchanged.
C15_Frames ==
    [][(tm = "object") =>
         /\ UNCHANGED <<delta, states, accepting>>
         /\ (Ready /\ last_op' = "write") =>
              /\ Len(tape') = Len(tape)
              /\ tape_length' = tape_length
              /\ index' = index
              /\ \A j \in 1..Len(tape) : (j # index + 1) => tape'[j] = tape[j]
       ]_vars

\* write has replaced the BLANK of a grown cell between two other cells.
C15_Witness ==
    /\ Ready /\ last_op = "write"
    /\ tape = <<"0", "1", "0">> /\ tape_length = 3 /\ index = 1

\* C17: the driver loop ends after at most max_steps + 1 calls of next() and
\* reports exactly one of accepted, rejected, exceeded; accepted (rejected)
\* only if the last call returned Accept (Reject), exceeded only if no call
\* returned Accept or Reject.
C17_DriverOutcome ==
    /\ (pc = "loop") => (steps <= max_steps /\ report = "" /\ result \in {"", None})
    /\ (pc = "done") =>
         /\ steps <= max_steps + 1
         /\ report \in {"accepted", "rejected", "exceeded"}
         /\ (report = "accepted") => result = ACCEPT
         /\ (report = "rejected") => result = REJECT
         /\ (report = "exceeded") => result = None

\* The loop gave up on a machine that never halts.
C17_Witness ==
    /\ pc = "done" /\ report = "exceeded" /\ result = None
    /\ steps = max_steps + 1

\* C20: the cached length counter is exact: _tape_length equals the number
\* of cells of _tape in every state reached after input_tape.
C20_LengthExact == Ready => (tape_length = Len(tape))

\* The counter followed a growth of the tape to the left by next().
C20_Witness ==
    /\ Ready /\ last_op = "next" /\ index = 0
    /\ tape_length = pre_length + 1 /\ Len(tape) = pre_length + 1

\* C16: the list refines the unbounded tape: with offset the number of
\* growths to the left, the cell at list index i holds the symbol at
\* position i - offset, every position outside the list holds BLANK, the
\* head is at position index - offset and read() returns the symbol under
\* the head of the unbounded tape.
C16_Refinement ==
    Ready =>
        /\ \A i \in 0..(Len(tape) - 1) : tape[i + 1] = ARead(acells, i - offset)
        /\ \A c \in acells : c[1] >= 0 - offset /\ c[1] <= Len(tape) - 1 - offset
        /\ pos = index - offset
        /\ index >= 0 /\ index < Len(tape) /\ read(Self) = ARead(acells, pos)

\* The head is left of the input, on a cell created by a growth to the left,
\* with a written cell right of it.
C16_Witness ==
    /\ Ready /\ offset = 1 /\ pos = 0 - 1 /\ index = 0
    /\ tape[1] = BLANK /\ tape[2] = "1" /\ <<0, "1">> \in acells

\* C18: Reject is stable: once next() has returned Reject, every further
\* next() call with no input_tape or write in between returns Reject again
\* and leaves current_state, tape, tape length and head index unchanged.
C18_RejectStable ==
    [][(Ready /\ rejected /\ last_op' = "next") =>
         /\ result' = REJECT
         /\ UNCHANGED <<current_state, tape, tape_length, index>>
       ]_vars

\* What the code does guarantee after a Reject: the next() call that follows
\* it directly rejects again and changes nothing.
RejectRepeats ==
    [][(Ready /\ last_op = "next" /\ result = REJECT /\ last_op' = "next") =>
         /\ result' = REJECT
         /\ UNCHANGED <<current_state, tape, tape_length, index>>
       ]_vars

\* C19: each go_left/go_right/next call grows the tape by at most one cell,
\* so after k moves the length is at most the initial length + k; and every
\* cell outside the range of the initial input is under the head or has been
\* under the head before.
C19_NoGrowthAhead ==
    Ready =>
        /\ (last_op \in {"go_left", "go_right", "next"}) =>
             (tape_length = pre_length \/ tape_length = pre_length + 1)
        /\ tape_length <= init_len + moves
        /\ \A i \in 0..(Len(tape) - 1) :
             (i - offset < 0 \/ i - offset >= init_len) => (i - offset) \in visited

\* Two moves have grown the tape by two cells, one at each end.
C19_Witness ==
    /\ Ready /\ moves = 3 /\ offset = 1
    /\ tape_length = init_len + 2 /\ index = tape_length - 1

====
